---- MODULE Spec2Model ----
(***************************************************************************)
(* DMS-Toolbox main frame (gui/mainframe.cc): the store registry           *)
(* m_instrumentStores, the instrument tree, the heap objects the frame     *)
(* creates and releases (cartridge buffers, instrument stores, RtMidi      *)
(* handles), the persisted configuration, the write transaction            *)
(* writeDevice, and the selection and drag-and-drop handlers with the read *)
(* transaction readFromDevice and copyContents.                            *)
(*                                                                         *)
(* Every handler is one action.  A handler's effect on the heap is the     *)
(* sequence of heap events it performs, in program order (log); the heap   *)
(* variables are that sequence applied to the heap.                        *)
(***************************************************************************)
EXTENDS Integers, Sequences, FiniteSets, TLC

\* ------------------------------------------------------------------ bounds
NumNames == 2      \* distinct device / cartridge names 1..NumNames
MaxBufs == 2       \* buffers the frame may allocate in one run
MaxMidi == 4       \* RtMidi handles the frame may create in one run
MaxIcbs == 2       \* ICBs of the store handed to writeDevice
MaxBlocks == 2     \* blocks a device is expected to send in one read
MaxUnits == 3      \* unit budget of one read (the 6180 of the device store)
MaxReads == 2      \* read transactions in one run

Names == 1..NumNames
NoName == 0        \* the empty wxString (oldLabel before it is assigned)

\* ------------------------------------------------------- program constants
Size8K == 8192
Size16K == 16384
DeviceBufSize == 6180

\* File lengths offered to readCartridgeFile: the two valid lengths, the empty
\* file, a length below, between and above them.
FileSizes == {0, Size8K - 1, Size8K, Size8K + Size8K \div 2, Size16K, Size16K + 1}

\* Abstract contents of a cartridge buffer: what the two layout validators
\* make of it.  No buffer passes both validations.
Contents == {"zero", "mk1", "dx10"}

\* Places where a callee may raise an exception that is no DataFormatException
\* (std::bad_alloc and the like).
RcfFaults == {"none", "Mk1", "Dx10", "tree"}

\* The files readCartridgeFile may meet.  An input the code does not get to
\* read (the length of a missing file, the bytes of a file of the wrong
\* length) takes one fixed value.
RcfCases ==
    {c \in [exists : BOOLEAN, size : FileSizes, streamOk : BOOLEAN, fullRead : BOOLEAN,
            content : Contents, fault : RcfFaults] :
        /\ ~c.exists => c.size = 0
        /\ c.size \notin {Size8K, Size16K} => c.streamOk
        /\ ~c.streamOk => c.fullRead
        /\ (c.size \notin {Size8K, Size16K} \/ ~c.fullRead) =>
               c.content = "zero" /\ c.fault = "none"}

NullStore == [m_store |-> 0, m_midiIn |-> 0, m_midiOut |-> 0, m_channel |-> 0, m_type |-> 0]

\* ------------------------------------------------------------------- state
VARIABLES
    pc,                 \* "config_devices", "config_carts", "idle", "destroyed"
    todo,               \* applyConfiguration: the groups of /Devices, then the keys
                        \* of /Cartridges, it has still to process
    m_instrumentStores, \* registry: name -> InstStore
    tree,               \* store root items of m_instTree, in creation order
    cfgCartridges,      \* keys of /Cartridges in m_config
    heap,               \* every object the frame has created: .buf the buffers
                        \* (new char[], new uint8_t[]), .store the instrument
                        \* stores, .midi the RtMidiIn / RtMidiOut handles
    log,                \* heap events of the last handler, in program order
    last,               \* the last handler: its inputs and how it ended
    wdStore,            \* writeDevice: the addresses the store holds a block at,
                        \* by block type
    wdPc,               \* writeDevice: the loop it is in, "none" outside it
    wdIcbs,             \* writeDevice: the ICBs the first loop has still to visit
    wdI,                \* writeDevice: the loop counter i
    wdOffset,           \* writeDevice: offset
    wdSent,             \* writeDevice: the messages sent so far, in order
    m_dragStore,        \* the store remembered by onInstBeginDrag, 0 for nullptr
    dragging,           \* a drag allowed by onInstBeginDrag has not been dropped yet
    stBlocks,           \* transfer: the blocks each store holds, by store
    treeKids,           \* transfer: the instrument items below each store item
    rd                  \* readFromDevice: the transaction started last

frameVars == <<pc, todo, m_instrumentStores, tree, cfgCartridges, heap, log, last>>
wdVars == <<wdStore, wdPc, wdIcbs, wdI, wdOffset, wdSent>>
trVars == <<m_dragStore, dragging, stBlocks, treeKids, rd>>
vars == <<frameVars, wdVars, trVars>>

\* ------------------------------------------------------------- heap events
Ev(ev, id, b, x, y) == [ev |-> ev, id |-> id, b |-> b, x |-> x, y |-> y]

NewBuf(id, size) == Ev("new_buf", id, size, "", "")
FreeBuf(id) == Ev("free_buf", id, 0, "", "")
TryLayout(layout, outcome) == Ev("try", 0, 0, layout, outcome)
NewStore(id, kind, buf) == Ev("new_store", id, buf, kind, "")
DeleteStore(id) == Ev("delete_store", id, 0, "", "")
NewMidi(id, dir) == Ev("new_midi", id, 0, dir, "")
OpenPort(id) == Ev("open_port", id, 0, "", "")
ClosePort(id) == Ev("close_port", id, 0, "", "")
DeleteMidi(id) == Ev("delete_midi", id, 0, "", "")
SetCallback(id, store) == Ev("set_callback", id, store, "", "")

\* An input handle that can call SysEx::rtMidiCallback with `store` as its
\* target: the callback is registered, the port is open, the handle alive.
\* RtMidi calls it from its own thread whenever a message arrives.
LiveInput(h, store) ==
    \E m \in DOMAIN h.midi :
        /\ h.midi[m].callback = store
        /\ h.midi[m].open
        /\ h.midi[m].deleted = 0

\* One event applied to the heap.
ApplyEvent(h, e) ==
    CASE e.ev = "new_buf" ->
           [h EXCEPT !.buf = Append(@, [freed |-> 0, freedUnderStore |-> FALSE,
                                        freedUnderInput |-> FALSE])]
      [] e.ev = "free_buf" ->
           [h EXCEPT !.buf[e.id].freed = @ + 1,
                     !.buf[e.id].freedUnderStore =
                         @ \/ \E s \in DOMAIN h.store :
                                  h.store[s].buffer = e.id /\ h.store[s].deleted = 0,
                     !.buf[e.id].freedUnderInput =
                         @ \/ \E s \in DOMAIN h.store :
                                  h.store[s].buffer = e.id /\ LiveInput(h, s)]
      [] e.ev = "new_store" ->
           [h EXCEPT !.store = Append(@, [kind |-> e.x, buffer |-> e.b, deleted |-> 0,
                                          deletedUnderInput |-> FALSE])]
      [] e.ev = "delete_store" ->
           [h EXCEPT !.store[e.id].deleted = @ + 1,
                     !.store[e.id].deletedUnderInput = @ \/ LiveInput(h, e.id)]
      [] e.ev = "new_midi" ->
           [h EXCEPT !.midi = Append(@, [dir |-> e.x, open |-> FALSE, deleted |-> 0,
                                         callback |-> 0])]
      [] e.ev = "open_port" ->
           [h EXCEPT !.midi[e.id].open = TRUE]
      [] e.ev = "close_port" ->
           [h EXCEPT !.midi[e.id].open = FALSE]
      [] e.ev = "delete_midi" ->
           [h EXCEPT !.midi[e.id].deleted = @ + 1]
      [] e.ev = "set_callback" ->
           [h EXCEPT !.midi[e.id].callback = e.b]
      [] OTHER -> h

RECURSIVE ApplyLog(_, _)
ApplyLog(h, events) ==
    IF events = <<>> THEN h
    ELSE ApplyLog(ApplyEvent(h, Head(events)), Tail(events))

bufObj == heap.buf
storeObj == heap.store
midiObj == heap.midi

\* The handler performed `events`: the log and the heap after it.
Performs(events) ==
    /\ log' = events
    /\ heap' = ApplyLog(heap, events)

\* --------------------------------------------------------- helper operators
Min(S) == CHOOSE x \in S : \A y \in S : x <= y

\* std::map::insert: a key already present keeps its entry, the pair offered
\* is dropped.
MapInsert(reg, key, is) ==
    IF key \in DOMAIN reg THEN reg ELSE reg @@ (key :> is)

\* Variant: the entry found under the old name is left in the map.
MapEraseKeeps(reg, key) == reg

\* std::map::erase of the entry found under key.
MapErase(reg, key) == [k \in DOMAIN reg \ {key} |-> reg[k]]

\* m_instTree->AppendItem(parent, label, -1, -1, new InstrumentHelper(is, 0))
AppendItem(t, parent, label, is) ==
    Append(t, [parent |-> parent, label |-> label, is |-> is])

\* ------------------------------------------------------- readCartridgeFile
\* Variant: a range test in place of the two lengths.
ValidSizeRange(size) == size >= Size8K /\ size <= Size16K

\* The file length test.
ValidSize(size) == size = Size8K \/ size = Size16K

\* Variant: the Mk1 validation is lax enough to pass a DX10 image.
AcceptsOverlapping(layout, content) ==
    CASE layout = "Mk1" -> content \in {"mk1", "dx10"}
      [] layout = "Dx10" -> content = "dx10"
      [] OTHER -> FALSE

\* Structural validation of one layout (the constructors of Mk1Cartridge and
\* Dx10Cartridge).
Accepts(layout, content) ==
    CASE layout = "Mk1" -> content = "mk1"
      [] layout = "Dx10" -> content = "dx10"
      [] OTHER -> FALSE

\* Outcome of one new-expression: the store is built, the constructor throws
\* DataFormatException, or something else is thrown.
Construct(layout, content, fault) ==
    IF fault = layout THEN "other"
    ELSE IF Accepts(layout, content) THEN "ok" ELSE "DataFormat"

\* Variant: every layout is tried, whatever the earlier ones built.
TryNextAlways(store) == TRUE

\* if (store == nullptr) before a layout is tried.
TryNext(store) == store = 0

\* Variant: a constructor that rejects the image has written to the buffer
\* while it parsed it.
BufferAfterScrubbed(layout, content, outcome) ==
    IF outcome = "DataFormat" THEN "zero" ELSE content

\* The bytes of the buffer after a constructor ran on it: a decoder reads the
\* buffer it is given and writes nothing to it.
BufferAfter(layout, content, outcome) == content

\* One guarded attempt on a buffer holding `content`: d is the decode so far,
\* [events, store, exc, seen, bytes], seen the bytes each constructor was
\* given and bytes what the buffer holds after it.
Attempt(d, layout, content, fault, buffer) ==
    IF d.exc # "none" \/ ~TryNext(d.store) THEN d
    ELSE LET o == Construct(layout, content, fault)
             id == Len(storeObj) + 1
                   + Cardinality({i \in DOMAIN d.events : d.events[i].ev = "new_store"})
             a == [d EXCEPT !.events = @ \o <<TryLayout(layout, o)>>,
                            !.seen = Append(@, content),
                            !.bytes = BufferAfter(layout, content, o)]
         IN CASE o = "ok" ->
                   [a EXCEPT !.events = @ \o <<NewStore(id, layout, buffer)>>,
                             !.store = id]
              [] o = "DataFormat" -> a
              [] OTHER -> [a EXCEPT !.exc = o]

\* The layouts in the order the code tries them, each on the same buffer:
\* nothing is written to it between fileStream.Read and the attempts.
Decode(content, fault, buffer) ==
    LET d0 == [events |-> <<>>, store |-> 0, exc |-> "none", seen |-> <<>>,
               bytes |-> content]
        d1 == Attempt(d0, "Mk1", d0.bytes, fault, buffer)
    IN Attempt(d1, "Dx10", d1.bytes, fault, buffer)

\* Variant: the test for a missing store is left out.
UnknownFormatIgnored(store) == FALSE

\* if (store == nullptr) throw DataFormatException("Unknown cartridge format")
UnknownFormat(store) == store = 0

\* Variant: the handler deletes the store and forgets the buffer.
RcfCleanupStoreOnly(store, buffer) ==
    IF store # 0 THEN <<DeleteStore(store)>> ELSE <<>>

\* catch (...) { delete store; delete[] buffer; throw; }
RcfCleanup(store, buffer) ==
    (IF store # 0 THEN <<DeleteStore(store)>> ELSE <<>>)
    \o (IF buffer # 0 THEN <<FreeBuf(buffer)>> ELSE <<>>)

\* The cartridge InstStore built for a decoded store.
CartridgeStore(store) == [NullStore EXCEPT !.m_store = store]

\* The body of the try block: [events, store, exc, msg, tree, reg, seen].
RcfBody(cartName, size, fullRead, content, fault, buffer) ==
    LET d == Decode(content, fault, buffer)
        Thrown(ev, st, exc, msg, seen) ==
            [events |-> ev, store |-> st, exc |-> exc, msg |-> msg,
             tree |-> tree, reg |-> m_instrumentStores, seen |-> seen]
    IN IF ~fullRead
         THEN Thrown(<<>>, 0, "DataFormat", "Could not read whole cartridge data", <<>>)
       ELSE IF d.exc # "none"
         THEN Thrown(d.events, d.store, d.exc, "", d.seen)
       ELSE IF UnknownFormat(d.store)
         THEN Thrown(d.events, d.store, "DataFormat", "Unknown cartridge format", d.seen)
       ELSE IF fault = "tree"
         THEN Thrown(d.events, d.store, "other", "", d.seen)
       ELSE [events |-> d.events, store |-> d.store, exc |-> "none", msg |-> "",
             tree |-> AppendItem(tree, "cartridges", cartName, CartridgeStore(d.store)),
             reg |-> MapInsert(m_instrumentStores, cartName, CartridgeStore(d.store)),
             seen |-> d.seen]

\* readCartridgeFile(filePath, cartName):
\* [err, msg, events, buffer, store, tree, reg, seen].
readCartridgeFile(cartName, exists, size, streamOk, fullRead, content, fault) ==
    LET buffer == Len(bufObj) + 1
        Early(err, msg) ==
            [err |-> err, msg |-> msg, events |-> <<>>, buffer |-> 0, store |-> 0,
             tree |-> tree, reg |-> m_instrumentStores, seen |-> <<>>]
        body == RcfBody(cartName, size, fullRead, content, fault, buffer)
    IN IF ~exists THEN Early("System", "File does not exist")
       ELSE IF ~ValidSize(size)
         THEN Early("DataFormat", "Invalid file size (must be 8 or 16 KB)")
       ELSE IF ~streamOk THEN Early("System", "Unable to open file")
       ELSE [err |-> body.exc, msg |-> body.msg,
             events |-> <<NewBuf(buffer, size)>> \o body.events
                        \o (IF body.exc # "none" THEN RcfCleanup(body.store, buffer)
                            ELSE <<>>),
             buffer |-> buffer, store |-> body.store,
             tree |-> body.tree, reg |-> body.reg, seen |-> body.seen]

\* ------------------------------------------------------------ device stores
\* InstrumentStore::getBuffer(): the buffer the store was constructed on.
GetBuffer(h, store) == h.store[store].buffer

\* Values the configuration or the add-device dialog may hold for the MIDI
\* channel and the device type.
ChannelValues == {0, 1, 16, 17}
TypeValues == {0, 1, 2, 3}
DlgChannels == {1, 16}
DlgTypes == {1, 2}

\* Places where RtMidi may raise RtMidiError, or a callee an Exception, while a
\* device is set up.
DevFaults == {"none", "newIn", "newOut", "openIn", "openOut", "iter"}

\* What /Devices may hold for one group and how RtMidi may fail on it.  A value
\* the code does not get to read takes one fixed value.
CdCases ==
    {c \in [fault : DevFaults, inFound : BOOLEAN, outFound : BOOLEAN,
            chPresent : BOOLEAN, channel : ChannelValues,
            tyPresent : BOOLEAN, type : TypeValues] :
        LET sawOut == c.fault \notin {"newIn", "newOut", "openIn"} /\ c.inFound
            sawCh == sawOut /\ c.fault # "openOut" /\ c.outFound
            sawTy == sawCh /\ c.chPresent /\ c.channel \in 1..16
        IN /\ c.fault \in {"newIn", "newOut", "openIn"} => c.inFound
           /\ c.fault = "openOut" => c.outFound
           /\ ~sawOut => c.outFound
           /\ ~sawCh => c.chPresent /\ c.channel = 1
           /\ ~c.chPresent => c.channel = 0
           /\ ~sawTy => c.tyPresent /\ c.type = 1
           /\ ~c.tyPresent => c.type = 0
           /\ c.fault = "iter" => c.type \in 1..2
           /\ (sawTy /\ c.tyPresent /\ c.type \in 1..2) =>
                  <<c.channel, c.type>> \in {<<1, 1>>, <<16, 2>>}}

\* What the user and RtMidi may do in addDevice.
AdCases ==
    {c \in [fault : DevFaults, numIn : {0, 1}, numOut : {0, 1}, dlgOk : BOOLEAN,
            channel : DlgChannels, type : DlgTypes] :
        LET asked == c.fault \notin {"newIn", "newOut"} /\ c.numIn # 0 /\ c.numOut # 0
        IN /\ c.fault \in {"newIn", "newOut"} => c.numIn = 1 /\ c.numOut = 1
           /\ ~asked => c.dlgOk
           /\ ~(asked /\ c.dlgOk) =>
                  c.channel = 1 /\ c.type = 1 /\ c.fault \in {"none", "newIn", "newOut"}
           /\ <<c.channel, c.type>> \in {<<1, 1>>, <<16, 2>>}}

\* Variant: the upper end of the channel range is not tested.
ValidChannelNoUpper(present, tmp) == present /\ tmp >= 1

\* if (!m_config.Read("Channel", &tmp) || tmp < 1 || tmp > 16)
ValidChannel(present, tmp) == present /\ tmp >= 1 /\ tmp <= 16

\* if (!m_config.Read("Type", &tmp) || tmp < 1 || tmp > 2)
ValidType(present, tmp) == present /\ tmp >= 1 /\ tmp <= 2

\* Variant: a port that was not found is not reported.
PortMissingIgnored(found) == FALSE

\* if (!found) throw ConfigurationException("MIDI ... port not found")
PortMissing(found) == ~found

\* The loop over the ports: openPort on the port whose name matches; none is
\* opened when no name matches.
LookUpAndOpen(handle, found) == IF found THEN <<OpenPort(handle)>> ELSE <<>>

\* Variant: the handler forgets the input handle.
CdCleanupNoMidiIn(h, is) ==
    (IF is.m_store # 0
       THEN <<DeleteStore(is.m_store), FreeBuf(GetBuffer(h, is.m_store))>> ELSE <<>>)
    \o (IF is.m_midiOut # 0 THEN <<DeleteMidi(is.m_midiOut)>> ELSE <<>>)

\* createDevices, catch (Exception&): store and buffer, then output, then input.
CdCleanup(h, is) ==
    (IF is.m_store # 0
       THEN <<DeleteStore(is.m_store), FreeBuf(GetBuffer(h, is.m_store))>> ELSE <<>>)
    \o (IF is.m_midiOut # 0 THEN <<DeleteMidi(is.m_midiOut)>> ELSE <<>>)
    \o (IF is.m_midiIn # 0 THEN <<DeleteMidi(is.m_midiIn)>> ELSE <<>>)

\* One iteration of the loop of createDevices, for the configured group `name`:
\* [err, msg, events, is, tree, reg].  err "RtMidi" and "other" leave the
\* function uncaught; the Exception kinds are caught inside it.
createDevice(name, fault, inFound, outFound, chPresent, channel, tyPresent, type) ==
    LET mIn == Len(midiObj) + 1
        mOut == Len(midiObj) + 2
        buf == Len(bufObj) + 1
        st == Len(storeObj) + 1
        is0 == [NullStore EXCEPT !.m_midiIn = mIn, !.m_midiOut = mOut, !.m_store = st]
        is1 == [is0 EXCEPT !.m_channel = channel]
        is2 == [is1 EXCEPT !.m_type = type]
        eIn == <<NewMidi(mIn, "in")>>
        eNew == eIn \o <<NewMidi(mOut, "out"), NewBuf(buf, DeviceBufSize),
                         NewStore(st, "Dx10Device", buf), SetCallback(mIn, st)>>
        eOpenIn == eNew \o LookUpAndOpen(mIn, inFound)
        eOpenOut == eOpenIn \o LookUpAndOpen(mOut, outFound)
        Escapes(err, ev, is) ==
            [err |-> err, msg |-> "", events |-> ev, is |-> is,
             tree |-> tree, reg |-> m_instrumentStores]
        Caught(err, msg, ev, is, t) ==
            [err |-> err, msg |-> msg,
             events |-> ev \o CdCleanup(ApplyLog(heap, ev), is),
             is |-> is, tree |-> t, reg |-> m_instrumentStores]
    IN IF fault = "newIn" THEN Escapes("RtMidi", <<>>, NullStore)
       ELSE IF fault = "newOut"
         THEN Escapes("RtMidi", eIn, [NullStore EXCEPT !.m_midiIn = mIn])
       ELSE IF inFound /\ fault = "openIn" THEN Escapes("RtMidi", eNew, is0)
       ELSE IF PortMissing(inFound)
         THEN Caught("Configuration", "MIDI input port not found", eOpenIn, is0, tree)
       ELSE IF outFound /\ fault = "openOut" THEN Escapes("RtMidi", eOpenIn, is0)
       ELSE IF PortMissing(outFound)
         THEN Caught("Configuration", "MIDI output port not found", eOpenOut, is0, tree)
       ELSE IF ~ValidChannel(chPresent, channel)
         THEN Caught("Configuration", "Invalid value for MIDI channel", eOpenOut, is0, tree)
       ELSE IF ~ValidType(tyPresent, type)
         THEN Caught("Configuration", "Invalid value for device type", eOpenOut, is1, tree)
       ELSE IF fault = "iter"
         THEN Caught("Configuration", "", eOpenOut, is2, AppendItem(tree, "devices", name, is2))
       ELSE [err |-> "none", msg |-> "", events |-> eOpenOut, is |-> is2,
             tree |-> AppendItem(tree, "devices", name, is2),
             reg |-> MapInsert(m_instrumentStores, name, is2)]

\* addDevice, catch (ConfigurationException&): store and buffer, then input,
\* then output.
AdCleanup(h, is) ==
    (IF is.m_store # 0
       THEN <<DeleteStore(is.m_store), FreeBuf(GetBuffer(h, is.m_store))>> ELSE <<>>)
    \o (IF is.m_midiIn # 0 THEN <<DeleteMidi(is.m_midiIn)>> ELSE <<>>)
    \o (IF is.m_midiOut # 0 THEN <<DeleteMidi(is.m_midiOut)>> ELSE <<>>)

\* addDevice, the end of the function: handles whose ownership was not moved.
AdRelease(midiIn, midiOut) ==
    (IF midiOut # 0 THEN <<DeleteMidi(midiOut)>> ELSE <<>>)
    \o (IF midiIn # 0 THEN <<DeleteMidi(midiIn)>> ELSE <<>>)

\* Variant: the name is not looked up.
NameTakenNever(reg, name) == FALSE

\* auto ent = m_instrumentStores.find(name); if (ent != end()) throw ...
NameTaken(reg, name) == name \in DOMAIN reg

\* addDevice(): [err, msg, escaped, events, is, tree, reg, written]; written
\* says whether the device was written to /Devices for the next run.
addDevice(fault, numIn, numOut, dlgOk, name, channel, type) ==
    LET mIn == Len(midiObj) + 1
        mOut == Len(midiObj) + 2
        buf == Len(bufObj) + 1
        st == Len(storeObj) + 1
        isIn == [NullStore EXCEPT !.m_midiIn = mIn]
        isOut == [isIn EXCEPT !.m_midiOut = mOut]
        is == [isOut EXCEPT !.m_channel = channel, !.m_type = type, !.m_store = st]
        eNew == <<NewMidi(mIn, "in"), NewMidi(mOut, "out")>>
        eOpenIn == eNew \o <<OpenPort(mIn)>>
        eOpenOut == eOpenIn \o <<OpenPort(mOut)>>
        eStore == eOpenOut \o <<NewBuf(buf, DeviceBufSize), NewStore(st, "Dx10Device", buf)>>
        Ends(err, msg, escaped, ev, i, t) ==
            [err |-> err, msg |-> msg, escaped |-> escaped, events |-> ev, is |-> i,
             tree |-> t, reg |-> m_instrumentStores, written |-> FALSE]
    IN IF fault = "newIn"
         THEN Ends("RtMidi", "Could not initialize MIDI", FALSE, <<>>, NullStore, tree)
       ELSE IF fault = "newOut"
         THEN Ends("RtMidi", "Could not initialize MIDI", FALSE,
                   <<NewMidi(mIn, "in"), DeleteMidi(mIn)>>, NullStore, tree)
       ELSE IF numOut = 0 \/ numIn = 0
         THEN Ends("NoPorts", "Can not add new device", FALSE,
                   eNew \o AdRelease(mIn, mOut), NullStore, tree)
       ELSE IF ~dlgOk
         THEN Ends("none", "", FALSE, eNew \o AdRelease(mIn, mOut), NullStore, tree)
       ELSE IF NameTaken(m_instrumentStores, name)
         THEN Ends("Configuration", "Device or cartridge with this name already exists",
                   FALSE,
                   eNew \o AdCleanup(ApplyLog(heap, eNew), NullStore) \o AdRelease(mIn, mOut),
                   NullStore, tree)
       ELSE IF fault = "openIn"
         THEN Ends("RtMidi", "", TRUE, eNew, isIn, tree)
       ELSE IF fault = "openOut"
         THEN Ends("RtMidi", "", TRUE, eOpenIn, isOut, tree)
       ELSE IF fault = "iter"
         THEN Ends("Configuration", "", FALSE,
                   eStore \o AdCleanup(ApplyLog(heap, eStore), is) \o AdRelease(0, 0),
                   is, AppendItem(tree, "devices", name, is))
       ELSE [err |-> "none", msg |-> "", escaped |-> FALSE,
             events |-> eStore \o <<SetCallback(mIn, st)>> \o AdRelease(0, 0),
             is |-> is,
             tree |-> AppendItem(tree, "devices", name, is),
             reg |-> MapInsert(m_instrumentStores, name, is),
             written |-> TRUE]

\* ------------------------------------------------------------- onInstRename
\* wxConfigBase::RenameEntry: fails when the old entry does not exist or the
\* new one does.
RenameEntryOk(cfg, oldLabel, newLabel) == oldLabel \in cfg /\ newLabel \notin cfg

\* The scan of onInstRename over the registry in key order: [oldLabel, veto].
\* The scan stops at the entry named newLabel.
RECURSIVE RenameScan(_, _, _, _, _)
RenameScan(reg, keys, store, newLabel, oldLabel) ==
    IF keys = {} THEN [oldLabel |-> oldLabel, veto |-> FALSE]
    ELSE LET k == Min(keys)
             old == IF reg[k].m_store = store THEN k ELSE oldLabel
         IN IF k = newLabel THEN [oldLabel |-> old, veto |-> TRUE]
            ELSE RenameScan(reg, keys \ {k}, store, newLabel, old)

\* onInstRenameBegin and onInstRename on a tree item carrying `is` with ICB
\* number icbNum: [veto, reg, cfg].
onInstRename(is, icbNum, newLabel) ==
    LET scan == RenameScan(m_instrumentStores, DOMAIN m_instrumentStores,
                           is.m_store, newLabel, NoName)
        veto == scan.veto \/ ~RenameEntryOk(cfgCartridges, scan.oldLabel, newLabel)
    IN IF ~(is.m_store # 0 /\ icbNum = 0) \/ veto
         THEN [veto |-> TRUE, reg |-> m_instrumentStores, cfg |-> cfgCartridges]
       ELSE [veto |-> FALSE,
             reg |-> MapInsert(IF scan.oldLabel \in DOMAIN m_instrumentStores
                                 THEN MapErase(m_instrumentStores, scan.oldLabel)
                                 ELSE m_instrumentStores,
                               newLabel, is),
             cfg |-> (cfgCartridges \ {scan.oldLabel}) \cup {newLabel}]

\* -------------------------------------------------------------- ~MainFrame
\* Variant: the buffer is freed before the store that views it.
DestroyEntryBufferFirst(h, is) ==
    (IF is.m_store # 0
       THEN <<FreeBuf(GetBuffer(h, is.m_store)), DeleteStore(is.m_store)>> ELSE <<>>)
    \o (IF is.m_type # 0
          THEN (IF is.m_midiIn # 0
                  THEN <<ClosePort(is.m_midiIn), DeleteMidi(is.m_midiIn)>> ELSE <<>>)
               \o (IF is.m_midiOut # 0
                     THEN <<ClosePort(is.m_midiOut), DeleteMidi(is.m_midiOut)>> ELSE <<>>)
          ELSE <<>>)

\* One registry entry: the store and then its buffer; for MIDI stores the
\* input and then the output, each closed and deleted.
DestroyEntry(h, is) ==
    (IF is.m_store # 0
       THEN <<DeleteStore(is.m_store), FreeBuf(GetBuffer(h, is.m_store))>> ELSE <<>>)
    \o (IF is.m_type # 0
          THEN (IF is.m_midiIn # 0
                  THEN <<ClosePort(is.m_midiIn), DeleteMidi(is.m_midiIn)>> ELSE <<>>)
               \o (IF is.m_midiOut # 0
                     THEN <<ClosePort(is.m_midiOut), DeleteMidi(is.m_midiOut)>> ELSE <<>>)
          ELSE <<>>)

RECURSIVE DestroyEvents(_, _)
DestroyEvents(reg, keys) ==
    IF keys = {} THEN <<>>
    ELSE LET k == Min(keys)
         IN DestroyEntry(heap, reg[k]) \o DestroyEvents(reg, keys \ {k})

\* -------------------------------------------------------------- writeDevice
\* Arithmetic in uint8_t.
U8(x) == x % 256

BlockTypes == {"ICB", "VCF", "AMPL", "FREQ", "WAVE"}

EmptyStore == [t \in BlockTypes |-> {}]

\* Stores handed to writeDevice: ICB slots at both ends of the range and next
\* to each other, and blocks at addresses inside, between and past the
\* addresses the loops visit for the offsets those slots give.
IcbSlots == {0, 1, 2, 66}
WdStores ==
    {st \in [ICB : {S \in SUBSET IcbSlots : Cardinality(S) <= MaxIcbs},
             VCF : SUBSET {9, 10}, AMPL : SUBSET {10, 20},
             FREQ : SUBSET {11, 21}, WAVE : SUBSET {0, 76}] : TRUE}

\* store.m_store->getVcf(addr) and its siblings: a block, or nullptr where
\* none is set.
GetBlock(store, type, addr) == addr \in store[type]

\* if (offset == 0) offset = i.first - 1;
NextOffset(offset, slot) == IF offset = 0 THEN U8(slot - 1) ELSE offset

\* Variant: the filters are sent after the amplitude blocks.
LoopAfterSwapped(loop) ==
    CASE loop = "ICB" -> "AMPL"
      [] loop = "AMPL" -> "VCF"
      [] loop = "VCF" -> "FREQ"
      [] loop = "FREQ" -> "WAVE"
      [] OTHER -> "done"

\* The loops of writeDevice in the order of the code.
LoopAfter(loop) ==
    CASE loop = "ICB" -> "VCF"
      [] loop = "VCF" -> "AMPL"
      [] loop = "AMPL" -> "FREQ"
      [] loop = "FREQ" -> "WAVE"
      [] OTHER -> "done"

\* The loop bounds: i < 10 for the filters, i < 20 for the others.
LoopLimit(loop) == IF loop = "VCF" THEN 10 ELSE 20

\* Variant: the step over the eleventh address is left out.
ProbeAddrNoSkip(loop, i, offset) == U8(i + offset)

\* uint8_t addr = i + offset; if (i >= 10) ++addr;   (no skip for the filters)
ProbeAddr(loop, i, offset) ==
    IF loop # "VCF" /\ i >= 10 THEN U8(U8(i + offset) + 1) ELSE U8(i + offset)

Msg(type, addr) == [type |-> type, addr |-> addr]

\* writeDevice is entered with a store.
WdInit ==
    /\ wdStore \in WdStores
    /\ wdPc = "ICB"
    /\ wdIcbs = wdStore.ICB
    /\ wdI = 0
    /\ wdOffset = 0
    /\ wdSent = <<>>

\* writeDevice is not running.
WdIdle ==
    /\ wdStore = EmptyStore
    /\ wdPc = "none"
    /\ wdIcbs = {}
    /\ wdI = 0
    /\ wdOffset = 0
    /\ wdSent = <<>>

\* for (auto& i : *(store.m_store)): one ICB, in slot order.
WdSendIcb ==
    /\ wdPc = "ICB"
    /\ wdIcbs # {}
    /\ LET slot == Min(wdIcbs)
       IN /\ wdSent' = Append(wdSent, Msg("ICB", slot))
          /\ wdOffset' = NextOffset(wdOffset, slot)
          /\ wdIcbs' = wdIcbs \ {slot}
    /\ UNCHANGED <<wdStore, wdPc, wdI>>
    /\ UNCHANGED <<frameVars, trVars>>

\* One pass of one of the four block loops.
WdProbe(loop) ==
    /\ wdPc = loop
    /\ wdI < LoopLimit(loop)
    /\ LET addr == ProbeAddr(loop, wdI, wdOffset)
       IN wdSent' = IF GetBlock(wdStore, loop, addr)
                      THEN Append(wdSent, Msg(loop, addr)) ELSE wdSent
    /\ wdI' = wdI + 1
    /\ UNCHANGED <<wdStore, wdPc, wdIcbs, wdOffset>>
    /\ UNCHANGED <<frameVars, trVars>>

WdSendVcf == WdProbe("VCF")

WdSendAmpl == WdProbe("AMPL")

WdSendFreq == WdProbe("FREQ")

WdSendWave == WdProbe("WAVE")

\* A loop ends; the next one starts, or writeDevice returns.
WdLoopEnd ==
    /\ \/ wdPc = "ICB" /\ wdIcbs = {}
       \/ wdPc \in {"VCF", "AMPL", "FREQ", "WAVE"} /\ wdI = LoopLimit(wdPc)
    /\ wdPc' = LoopAfter(wdPc)
    /\ wdI' = 0
    /\ UNCHANGED <<wdStore, wdIcbs, wdOffset, wdSent>>
    /\ UNCHANGED <<frameVars, trVars>>

\* ----------------------------------------------------------- readFromDevice
\* The blocks a device is expected to send; the odd ones are ICBs, which the
\* tree lists as instruments.
Blocks == 1..MaxBlocks

Icbs(blocks) == {b \in blocks : b % 2 = 1}

\* The blocks ICB b refers to (amplitude, frequency, waveform), by index into
\* the store that holds it; none when the reference is unset.
IcbRefs(b) == {b + 1} \cap Blocks

\* getAmpl / getFreq / getWave(blockIndex): the block, 0 (null) when the store
\* holds none under that index.
Resolve(blocks, ref) == IF ref \in blocks THEN ref ELSE 0

\* Variant: a cartridge image is decoded without its references being looked
\* at.
DecodedUnvalidated == SUBSET Blocks \ {{}}

\* What a validated cartridge image decodes to: the blocks its ICBs refer to
\* are in the image.
DecodedBlockSets ==
    {S \in SUBSET Blocks : S # {} /\ \A b \in Icbs(S) : IcbRefs(b) \subseteq S}

\* No frame is held.
NoFrame == [block |-> 0, payload |-> <<0, 0>>, checksum |-> 0]

\* No read transaction has been started.
RdIdle ==
    [pc |-> "Idle", item |-> 0, store |-> 0, units |-> 0, applied |-> {},
     frame |-> NoFrame, notify |-> FALSE, reported |-> -1, cancelAt |-> -1,
     answer |-> "none", txn |-> 0]

\* The progress dialog onInstSelect hands to readFromDevice as context.
Prog == 1

\* Variant: the dialog is shown without wxPD_APP_MODAL.
ProgressNotModal == FALSE

\* wxProgressDialog(..., wxPD_APP_MODAL | ...): while the dialog is shown the
\* other windows of the application take no input.
ProgressModal == TRUE

\* The frame takes a tree or menu event.
UiEnabled == pc = "idle" \/ (pc = "reading" /\ ~ProgressModal)

\* Variant: the answer of the dialog is dropped.
updateProgressAlways(object, dlgUpdate) == TRUE

\* updateProgress(object, current, max): the answer of progDlg->Update(current),
\* false without a dialog.
updateProgress(object, dlgUpdate) == IF object # 0 THEN dlgUpdate ELSE FALSE

\* A frame on the wire: the block it carries, its payload and the trailing
\* checksum byte.
Frames == [block : Blocks, payload : [1..2 -> 0..1], checksum : 0..1]

\* The checksum over a payload.
Checksum(payload) == (payload[1] + payload[2]) % 2

\* Variant: a frame is applied without verification.
ChecksumOkUnchecked(f) == TRUE

\* The checksum of a received frame is verified before the frame is applied.
ChecksumOk(f) == f.checksum = Checksum(f.payload)

\* Variant: the unit budget is not looked at.
RdDoneNoBudget(r) == r.applied = Blocks

\* The read has nothing left to wait for: every expected block has arrived or
\* the unit budget is used up.
RdDone(r) == r.applied = Blocks \/ r.units >= MaxUnits

\* Variant: frames are still taken after the transaction was cancelled.
RdAwaitingOrCancelled(r) == r.pc \in {"AwaitingBlock", "Cancelled"}

\* The transaction waits for a frame.
RdAwaiting(r) == r.pc = "AwaitingBlock"

\* readFromDevice starts on the store of tree item `item`: the request is
\* sent, nothing has been received.
RdBegin(item, store) ==
    [RdIdle EXCEPT !.pc = "AwaitingBlock", !.item = item, !.store = store,
                   !.notify = TRUE, !.txn = rd.txn + 1]

\* readFromDevice fills the store in place from the frames it receives: the
\* store starts the transaction without blocks.
RdStoreAtStart(blocks, store) == [blocks EXCEPT ![store] = {}]

\* ------------------------------------------------------------ drag and drop
\* The generation of a store layout.
Generation(kind) == IF kind = "Mk1" THEN 1 ELSE 2

\* copyContents(other) on store dst: [err, blocks]; the blocks of the source
\* replace those of the destination, or a Configuration error and nothing
\* else when the generations differ.
copyContents(blocks, dst, src) ==
    IF Generation(storeObj[dst].kind) # Generation(storeObj[src].kind)
      THEN [err |-> "Configuration", blocks |-> blocks]
      ELSE [err |-> "none", blocks |-> [blocks EXCEPT ![dst] = blocks[src]]]

\* Variant: the children are deleted before copyContents is called.
KidsAfterDropDeleteFirst(kids, item, blocks, threw) ==
    IF threw THEN [kids EXCEPT ![item] = {}]
    ELSE [kids EXCEPT ![item] = Icbs(blocks)]

\* onInstEndDrag after copyContents: DeleteChildren and one item per ICB of
\* the store; not reached when copyContents threw.
KidsAfterDrop(kids, item, blocks, threw) ==
    IF threw THEN kids ELSE [kids EXCEPT ![item] = Icbs(blocks)]

\* The InstrumentHelper of a tree item: item 0 is a folder without item data;
\* icbNum 0 is the store item, another number an instrument item below it.
ItemStore(item) == IF item = 0 THEN NullStore ELSE tree[item].is

\* The items of the tree: the folder, the store items, the instrument items.
TreeItems ==
    {<<0, 0>>} \cup {<<i, 0>> : i \in DOMAIN tree}
    \cup {<<i, k>> : i \in DOMAIN tree, k \in Blocks}

ItemShown(it) == it[2] = 0 \/ (it[1] # 0 /\ it[2] \in treeKids[it[1]])

\* onInstSelect on an instrument item: [shown, resolved]; when the store has
\* the ICB its three references are resolved and handed to the panels.
ShowInstrument(item, icbNum) ==
    LET blocks == stBlocks[ItemStore(item).m_store]
        shown == item # 0 /\ icbNum # 0 /\ icbNum \in blocks
    IN [shown |-> shown,
        resolved |-> IF shown THEN {Resolve(blocks, ref) : ref \in IcbRefs(icbNum)}
                     ELSE {}]

\* Variant: the store type is not looked at when a drag begins.
onInstBeginDragAnySource(item, icbNum) ==
    LET store == ItemStore(item)
    IN IF item # 0 /\ store.m_store # 0 /\ icbNum = 0
         THEN [allow |-> TRUE, dragStore |-> store.m_store]
         ELSE [allow |-> FALSE, dragStore |-> m_dragStore]

\* onInstBeginDrag: [allow, dragStore].
onInstBeginDrag(item, icbNum) ==
    LET store == ItemStore(item)
    IN IF item # 0 /\ store.m_store # 0 /\ store.m_type = 0 /\ icbNum = 0
         THEN [allow |-> TRUE, dragStore |-> store.m_store]
         ELSE [allow |-> FALSE, dragStore |-> m_dragStore]

\* onInstEndDrag: [allow, err, dragStore, blocks, kids].
onInstEndDrag(item, icbNum) ==
    LET store == ItemStore(item)
        copy == copyContents(stBlocks, store.m_store, m_dragStore)
    IN IF item # 0 /\ store.m_store # 0 /\ m_dragStore # 0
          /\ store.m_store # m_dragStore /\ store.m_type # 0 /\ icbNum = 0
         THEN [allow |-> copy.err = "none", err |-> copy.err, dragStore |-> m_dragStore,
               blocks |-> copy.blocks,
               kids |-> KidsAfterDrop(treeKids, item, copy.blocks[store.m_store],
                                      copy.err # "none")]
         ELSE [allow |-> FALSE, err |-> "none", dragStore |-> 0,
               blocks |-> stBlocks, kids |-> treeKids]

\* ----------------------------------------------------------------- actions
\* What a handler leaves behind for inspection: its name, the name it worked
\* on, the error it ended with, the inputs it consumed, the objects it
\* created, and the registry and tree it started from.
Last(op, name, err, msg, escaped, inp, buffer, is) ==
    [op |-> op, name |-> name, err |-> err, msg |-> msg, escaped |-> escaped,
     inp |-> inp, buffer |-> buffer, is |-> is,
     regBefore |-> m_instrumentStores, treeBefore |-> tree]

NoInput == [none |-> TRUE]

RcfInput(r, exists, size, fullRead, content, fault) ==
    [exists |-> exists,
     size |-> IF exists THEN size ELSE 0,
     content |-> IF r.buffer # 0 /\ fullRead THEN content ELSE "unread",
     fault |-> IF r.buffer # 0 /\ fullRead THEN fault ELSE "none",
     seen |-> r.seen]

\* MainFrame::MainFrame: an empty registry and tree; the configuration is what
\* earlier runs left in it.
Init ==
    /\ pc = "config_devices"
    /\ todo \in SUBSET Names
    /\ cfgCartridges \in SUBSET Names
    /\ Cardinality(todo) + Cardinality(cfgCartridges) <= MaxBufs
    /\ m_instrumentStores = <<>>
    /\ tree = <<>>
    /\ heap = [buf |-> <<>>, store |-> <<>>, midi |-> <<>>]
    /\ log = <<>>
    /\ last = [op |-> "MainFrame", name |-> NoName, err |-> "none", msg |-> "",
               escaped |-> FALSE, inp |-> NoInput, buffer |-> 0, is |-> NullStore,
               regBefore |-> <<>>, treeBefore |-> <<>>]
    /\ WdIdle
    /\ m_dragStore = 0
    /\ dragging = FALSE
    /\ stBlocks = <<>>
    /\ treeKids = <<>>
    /\ rd = RdIdle

\* applyConfiguration -> createDevices: one configured device group.
CreateDevices ==
    /\ pc = "config_devices"
    /\ todo # {}
    /\ Len(bufObj) < MaxBufs
    /\ Len(midiObj) + 2 <= MaxMidi
    /\ \E c \in CdCases :
      \E r \in {createDevice(Min(todo), c.fault, c.inFound, c.outFound,
                              c.chPresent, c.channel, c.tyPresent, c.type)} :
          LET name == Min(todo)
              sawIn == c.fault \notin {"newIn", "newOut"}
              sawOut == sawIn /\ c.inFound /\ c.fault # "openIn"
              sawCh == sawOut /\ c.outFound /\ c.fault # "openOut"
              sawTy == sawCh /\ c.chPresent /\ c.channel \in 1..16
          IN /\ Performs(r.events)
             /\ tree' = r.tree
             /\ m_instrumentStores' = r.reg
             /\ todo' = todo \ {name}
             /\ pc' = IF r.err \in {"RtMidi", "other"} THEN "aborted" ELSE pc
             /\ last' = Last("createDevices", name, r.err, r.msg,
                             r.err \in {"RtMidi", "other"},
                             [inPort |-> IF ~sawIn THEN "unread"
                                         ELSE IF c.inFound THEN "found" ELSE "missing",
                              outPort |-> IF ~sawOut THEN "unread"
                                          ELSE IF c.outFound THEN "found" ELSE "missing",
                              channel |-> IF sawCh /\ c.chPresent THEN c.channel ELSE -1,
                              type |-> IF sawTy /\ c.tyPresent THEN c.type ELSE -1],
                             IF r.is.m_store # 0 THEN Len(bufObj) + 1 ELSE 0, r.is)
    /\ UNCHANGED cfgCartridges
    /\ UNCHANGED <<wdVars, trVars>>

\* applyConfiguration: createDevices has returned, the cartridges follow.
CreateDevicesDone ==
    /\ pc = "config_devices"
    /\ todo = {}
    /\ pc' = "config_carts"
    /\ todo' = cfgCartridges
    /\ UNCHANGED <<m_instrumentStores, tree, cfgCartridges,
                   heap, log, last>>
    /\ UNCHANGED <<wdVars, trVars>>

\* applyConfiguration: one cartridge opened last time is read again.
ReadConfiguredCartridge ==
    /\ pc = "config_carts"
    /\ todo # {}
    /\ Len(bufObj) < MaxBufs
    /\ \E c \in RcfCases :
      \E r \in {readCartridgeFile(Min(todo), c.exists, c.size, c.streamOk, c.fullRead,
                                   c.content, c.fault)} :
          LET name == Min(todo)
          IN /\ Performs(r.events)
             /\ tree' = r.tree
             /\ m_instrumentStores' = r.reg
             /\ todo' = todo \ {name}
             /\ pc' = IF r.err = "other" THEN "aborted" ELSE pc
             /\ last' = Last("readCartridgeFile", IF r.store # 0 THEN name ELSE NoName,
                             r.err, r.msg, r.err = "other",
                             RcfInput(r, c.exists, c.size, c.fullRead, c.content, c.fault),
                             r.buffer, CartridgeStore(r.store))
    /\ UNCHANGED cfgCartridges
    /\ UNCHANGED <<wdVars, trVars>>

\* applyConfiguration returns: the frame waits for events.
ApplyConfigurationDone ==
    /\ pc = "config_carts"
    /\ todo = {}
    /\ pc' = "idle"
    /\ UNCHANGED <<todo, m_instrumentStores, tree, cfgCartridges,
                   heap, log, last>>
    /\ UNCHANGED <<wdVars, trVars>>

\* onFileOpen: the file dialog, readCartridgeFile, and on success the entry
\* written to /Cartridges.
OnFileOpen ==
    /\ pc = "idle"
    /\ Len(bufObj) < MaxBufs
    /\ \E name \in Names, c \in RcfCases :
      \E r \in {readCartridgeFile(name, c.exists, c.size, c.streamOk, c.fullRead,
                                   c.content, c.fault)} :
             /\ Performs(r.events)
             /\ tree' = r.tree
             /\ m_instrumentStores' = r.reg
             /\ cfgCartridges' = IF r.err = "none" THEN cfgCartridges \cup {name}
                                 ELSE cfgCartridges
             /\ pc' = IF r.err = "other" THEN "aborted" ELSE pc
             /\ last' = Last("readCartridgeFile", IF r.store # 0 THEN name ELSE NoName,
                             r.err, r.msg, r.err = "other",
                             RcfInput(r, c.exists, c.size, c.fullRead, c.content, c.fault),
                             r.buffer, CartridgeStore(r.store))
    /\ UNCHANGED todo
    /\ UNCHANGED <<wdVars, trVars>>

\* onFileOpen: the file dialog is cancelled.
OnFileOpenCancel ==
    /\ pc = "idle"
    /\ Performs(<<>>)
    /\ last' = Last("onFileOpen", NoName, "none", "", FALSE, NoInput, 0, NullStore)
    /\ UNCHANGED <<pc, todo, m_instrumentStores, tree, cfgCartridges>>
    /\ UNCHANGED <<wdVars, trVars>>

\* onInstSelect on the Devices item: addDevice.
AddDevice ==
    /\ pc = "idle"
    /\ Len(bufObj) < MaxBufs
    /\ Len(midiObj) + 2 <= MaxMidi
    /\ \E name \in Names, c \in AdCases :
      \E r \in {addDevice(c.fault, c.numIn, c.numOut, c.dlgOk, name, c.channel, c.type)} :
          LET asked == c.dlgOk /\ c.numIn # 0 /\ c.numOut # 0
                       /\ c.fault \notin {"newIn", "newOut"}
          IN /\ Performs(r.events)
             /\ tree' = r.tree
             /\ m_instrumentStores' = r.reg
             /\ pc' = IF r.escaped THEN "aborted" ELSE pc
             /\ last' = Last("addDevice", IF asked THEN name ELSE NoName,
                             r.err, r.msg, r.escaped,
                             [dialog |-> IF asked THEN "ok"
                                         ELSE IF r.err = "none" THEN "cancel" ELSE "none"],
                             IF r.is.m_store # 0 THEN Len(bufObj) + 1 ELSE 0, r.is)
    /\ UNCHANGED <<todo, cfgCartridges>>
    /\ UNCHANGED <<wdVars, trVars>>

\* onInstRenameBegin and onInstRename: item 0 is a folder (no item data), the
\* others are the store items of the tree; icbNum # 0 is an instrument below.
OnInstRename ==
    /\ pc = "idle"
    /\ \E item \in 0..Len(tree), icbNum \in {0, 1}, newLabel \in Names :
      \E r \in {onInstRename(IF item = 0 THEN NullStore ELSE tree[item].is,
                              icbNum, newLabel)} :
          LET is == IF item = 0 THEN NullStore ELSE tree[item].is
          IN /\ m_instrumentStores' = r.reg
             /\ cfgCartridges' = r.cfg
             /\ tree' = IF r.veto THEN tree ELSE [tree EXCEPT ![item].label = newLabel]
             /\ last' = Last("onInstRename", newLabel,
                             IF r.veto THEN "veto" ELSE "none", "", FALSE,
                             [item |-> item, icbNum |-> icbNum], 0, is)
    /\ Performs(<<>>)
    /\ UNCHANGED <<pc, todo>>
    /\ UNCHANGED <<wdVars, trVars>>

\* ~MainFrame: every registry entry is released; the registry and the tree go
\* with the frame.
DestroyMainFrame ==
    /\ pc = "idle"
    /\ pc' = "destroyed"
    /\ Performs(DestroyEvents(m_instrumentStores, DOMAIN m_instrumentStores))
    /\ m_instrumentStores' = <<>>
    /\ tree' = <<>>
    /\ last' = Last("~MainFrame", NoName, "none", "", FALSE, NoInput, 0, NullStore)
    /\ UNCHANGED <<todo, cfgCartridges>>
    /\ UNCHANGED <<wdVars, trVars>>

Next ==
    \/ CreateDevices
    \/ CreateDevicesDone
    \/ ReadConfiguredCartridge
    \/ ApplyConfigurationDone
    \/ OnFileOpen
    \/ OnFileOpenCancel
    \/ AddDevice
    \/ OnInstRename
    \/ DestroyMainFrame

Spec == Init /\ [][Next]_vars

\* writeDevice on its own: the frame is idle with nothing loaded.
InitWrite ==
    /\ pc = "idle"
    /\ todo = {}
    /\ cfgCartridges = {}
    /\ m_instrumentStores = <<>>
    /\ tree = <<>>
    /\ heap = [buf |-> <<>>, store |-> <<>>, midi |-> <<>>]
    /\ log = <<>>
    /\ last = [op |-> "writeDevice", name |-> NoName, err |-> "none", msg |-> "",
               escaped |-> FALSE, inp |-> NoInput, buffer |-> 0, is |-> NullStore,
               regBefore |-> <<>>, treeBefore |-> <<>>]
    /\ WdInit
    /\ m_dragStore = 0
    /\ dragging = FALSE
    /\ stBlocks = <<>>
    /\ treeKids = <<>>
    /\ rd = RdIdle

NextWrite ==
    \/ WdSendIcb
    \/ WdSendVcf
    \/ WdSendAmpl
    \/ WdSendFreq
    \/ WdSendWave
    \/ WdLoopEnd

SpecWrite == InitWrite /\ [][NextWrite]_vars

\* ------------------------------------------ selection, read, drag and drop
\* The stores a frame may hold once applyConfiguration has returned.
TransferKinds == {"Mk1", "Dx10", "Dx10Device"}

\* The frame after the stores of names n..NumNames were created: what a
\* successful createDevices iteration or readCartridgeFile leaves.
RECURSIVE SetUp(_, _, _)
SetUp(st, kinds, n) ==
    IF n > NumNames THEN st
    ELSE LET h == st.heap
             buf == Len(h.buf) + 1
             store == Len(h.store) + 1
             mIn == Len(h.midi) + 1
             mOut == Len(h.midi) + 2
             dev == kinds[n] = "Dx10Device"
             is == IF dev
                     THEN [m_store |-> store, m_midiIn |-> mIn, m_midiOut |-> mOut,
                           m_channel |-> 1, m_type |-> 2]
                     ELSE CartridgeStore(store)
             events == IF dev
                         THEN <<NewMidi(mIn, "in"), NewMidi(mOut, "out"),
                                NewBuf(buf, DeviceBufSize), NewStore(store, kinds[n], buf),
                                SetCallback(mIn, store), OpenPort(mIn), OpenPort(mOut)>>
                         ELSE <<NewBuf(buf, Size8K), NewStore(store, kinds[n], buf)>>
         IN SetUp([heap |-> ApplyLog(h, events),
                   reg |-> MapInsert(st.reg, n, is),
                   tree |-> AppendItem(st.tree, IF dev THEN "devices" ELSE "cartridges",
                                       n, is)],
                  kinds, n + 1)

\* The frame is idle with a store under every name; a device store is empty,
\* a cartridge holds what was decoded, and the tree lists the ICBs.
InitTransfer ==
    /\ pc = "idle"
    /\ todo = {}
    /\ log = <<>>
    /\ last = [op |-> "MainFrame", name |-> NoName, err |-> "none", msg |-> "",
               escaped |-> FALSE, inp |-> NoInput, buffer |-> 0, is |-> NullStore,
               regBefore |-> <<>>, treeBefore |-> <<>>]
    /\ \E kinds \in [Names -> TransferKinds] :
          LET st == SetUp([heap |-> [buf |-> <<>>, store |-> <<>>, midi |-> <<>>],
                           reg |-> <<>>, tree |-> <<>>], kinds, 1)
          IN /\ heap = st.heap
             /\ m_instrumentStores = st.reg
             /\ tree = st.tree
             /\ cfgCartridges = {n \in Names : kinds[n] # "Dx10Device"}
             /\ stBlocks \in {b \in [Names -> SUBSET Blocks] :
                                \A n \in Names :
                                    IF kinds[n] = "Dx10Device" THEN b[n] = {}
                                    ELSE b[n] \in DecodedBlockSets}
    /\ treeKids = [n \in Names |-> Icbs(stBlocks[n])]
    /\ m_dragStore = 0
    /\ dragging = FALSE
    /\ rd = RdIdle
    /\ WdIdle

\* onInstSelect on an item of the tree other than Devices: an instrument is
\* shown in the panels, or readFromDevice is started on a device store.
OnInstSelect ==
    /\ UiEnabled
    /\ \E it \in TreeItems :
          LET item == it[1]
              icbNum == it[2]
              store == ItemStore(item)
              reads == item # 0 /\ store.m_store # 0 /\ icbNum = 0 /\ store.m_type # 0
          IN /\ ItemShown(it)
             /\ reads => rd.txn < MaxReads
             /\ pc' = IF reads THEN "reading" ELSE pc
             /\ rd' = IF reads THEN RdBegin(item, store.m_store) ELSE rd
             /\ stBlocks' = IF reads THEN RdStoreAtStart(stBlocks, store.m_store)
                             ELSE stBlocks
             /\ last' = Last("onInstSelect", NoName, "none", "", FALSE,
                             [item |-> item, icbNum |-> icbNum,
                              shown |-> ShowInstrument(item, icbNum).shown,
                              resolved |-> ShowInstrument(item, icbNum).resolved],
                             0, store)
    /\ log' = <<>>
    /\ UNCHANGED <<todo, m_instrumentStores, tree, cfgCartridges, heap>>
    /\ UNCHANGED <<m_dragStore, dragging, treeKids>>
    /\ UNCHANGED wdVars

\* readFromDevice: the progress callback is called with the units completed.
RdProgress ==
    /\ pc = "reading"
    /\ rd.pc = "AwaitingBlock"
    /\ rd.notify
    /\ \E dlgUpdate \in BOOLEAN :
          LET go == updateProgress(Prog, dlgUpdate)
          IN rd' = [rd EXCEPT !.notify = FALSE,
                              !.reported = rd.units,
                              !.cancelAt = IF dlgUpdate THEN @ ELSE rd.units,
                              !.answer = IF go THEN "go" ELSE "stop",
                              !.pc = IF go THEN @ ELSE "Cancelled"]
    /\ UNCHANGED <<frameVars, wdVars, m_dragStore, dragging, stBlocks, treeKids>>

\* readFromDevice: one unit of waiting.  A frame arrives and is verified, or
\* the unit passes without one.  A frame that fails verification ends the
\* transaction in a DataFormatException, which onInstSelect does not catch.
RdReceive ==
    /\ pc = "reading"
    /\ RdAwaiting(rd)
    /\ ~rd.notify
    /\ ~RdDone(rd)
    /\ \/ \E f \in Frames :
             /\ f.block \notin rd.applied
             /\ IF ChecksumOk(f)
                  THEN /\ rd' = [rd EXCEPT !.pc = "ApplyBlock", !.frame = f]
                       /\ UNCHANGED <<pc, last>>
                  ELSE /\ rd' = [rd EXCEPT !.pc = "Failed", !.frame = f]
                       /\ pc' = "aborted"
                       /\ last' = Last("onInstSelect", NoName, "DataFormat", "", TRUE,
                                       [item |-> rd.item, icbNum |-> 0, shown |-> FALSE, resolved |-> {}],
                                       0, ItemStore(rd.item))
       \/ /\ rd' = [rd EXCEPT !.units = @ + 1, !.notify = TRUE]
          /\ UNCHANGED <<pc, last>>
    /\ UNCHANGED <<todo, m_instrumentStores, tree, cfgCartridges, heap, log>>
    /\ UNCHANGED <<wdVars, m_dragStore, dragging, stBlocks, treeKids>>

\* readFromDevice: the verified frame is applied to the store; that is one
\* unit.
RdApply ==
    /\ pc = "reading"
    /\ rd.pc = "ApplyBlock"
    /\ LET applied == rd.applied \cup {rd.frame.block}
       IN /\ stBlocks' = [stBlocks EXCEPT ![rd.store] = @ \cup {rd.frame.block}]
          /\ rd' = [rd EXCEPT !.applied = applied,
                              !.units = @ + 1,
                              !.frame = NoFrame,
                              !.notify = applied # Blocks,
                              !.pc = IF applied = Blocks THEN "Complete"
                                     ELSE "AwaitingBlock"]
    /\ UNCHANGED <<frameVars, wdVars, m_dragStore, dragging, treeKids>>

\* readFromDevice: the unit budget is used up.
RdComplete ==
    /\ pc = "reading"
    /\ rd.pc = "AwaitingBlock"
    /\ ~rd.notify
    /\ RdDone(rd)
    /\ rd' = [rd EXCEPT !.pc = "Complete"]
    /\ UNCHANGED <<frameVars, wdVars, m_dragStore, dragging, stBlocks, treeKids>>

\* onInstSelect after readFromDevice has returned: DeleteChildren and one
\* item per ICB of the store.
OnInstSelectReturn ==
    /\ pc = "reading"
    /\ rd.pc \in {"Complete", "Cancelled"}
    /\ pc' = "idle"
    /\ treeKids' = [treeKids EXCEPT ![rd.item] = Icbs(stBlocks[rd.store])]
    /\ last' = Last("onInstSelect", NoName, "none", "", FALSE,
                    [item |-> rd.item, icbNum |-> 0, shown |-> FALSE, resolved |-> {}],
                    0, ItemStore(rd.item))
    /\ UNCHANGED <<todo, m_instrumentStores, tree, cfgCartridges, heap, log>>
    /\ UNCHANGED <<wdVars, m_dragStore, dragging, stBlocks, rd>>

\* onInstBeginDrag on an item of the tree.
OnInstBeginDrag ==
    /\ UiEnabled
    /\ ~dragging
    /\ \E it \in TreeItems :
        \E r \in {onInstBeginDrag(it[1], it[2])} :
             /\ ItemShown(it)
             /\ m_dragStore' = r.dragStore
             /\ dragging' = r.allow
             /\ last' = Last("onInstBeginDrag", NoName,
                             IF r.allow THEN "none" ELSE "veto", "", FALSE,
                             [item |-> it[1], icbNum |-> it[2], dragStore |-> m_dragStore,
                              blocks |-> stBlocks, kids |-> treeKids],
                             0, ItemStore(it[1]))
    /\ log' = <<>>
    /\ UNCHANGED <<pc, todo, m_instrumentStores, tree, cfgCartridges, heap>>
    /\ UNCHANGED <<wdVars, stBlocks, treeKids, rd>>

\* onInstEndDrag: the drop on an item of the tree.  A ConfigurationException
\* of copyContents is not caught by the handler.
OnInstEndDrag ==
    /\ UiEnabled
    /\ dragging
    /\ \E it \in TreeItems :
        \E r \in {onInstEndDrag(it[1], it[2])} :
             /\ ItemShown(it)
             /\ m_dragStore' = r.dragStore
             /\ stBlocks' = r.blocks
             /\ treeKids' = r.kids
             /\ pc' = IF r.err # "none" THEN "aborted" ELSE pc
             /\ last' = Last("onInstEndDrag", NoName,
                             IF r.err # "none" THEN r.err
                             ELSE IF r.allow THEN "none" ELSE "veto",
                             "", r.err # "none",
                             [item |-> it[1], icbNum |-> it[2], dragStore |-> m_dragStore,
                              blocks |-> stBlocks, kids |-> treeKids],
                             0, ItemStore(it[1]))
    /\ dragging' = FALSE
    /\ log' = <<>>
    /\ UNCHANGED <<todo, m_instrumentStores, tree, cfgCartridges, heap>>
    /\ UNCHANGED <<wdVars, rd>>

RdStep ==
    \/ RdProgress
    \/ RdReceive
    \/ RdApply
    \/ RdComplete
    \/ OnInstSelectReturn

NextTransfer ==
    \/ OnInstSelect
    \/ RdProgress
    \/ RdReceive
    \/ RdApply
    \/ RdComplete
    \/ OnInstSelectReturn
    \/ OnInstBeginDrag
    \/ OnInstEndDrag

SpecTransfer == InitTransfer /\ [][NextTransfer]_vars

\* readFromDevice runs on: a step it can take is taken.
SpecTransferFair == SpecTransfer /\ WF_vars(RdStep)

\* ------------------------------------------------------------------ claims
\* The layout attempts of the last handler, in the order they were made.
Tries == SelectSeq(log, LAMBDA e : e.ev = "try")

Allocates(e) == e.ev \in {"new_buf", "new_store", "try"}

AfterRcf == last.op = "readCartridgeFile"

\* C1: readCartridgeFile on an existing file whose length is neither 8192 nor
\* 16384 fails with a DataFormat error before any buffer is allocated or any
\* layout is tried, and adds nothing to the registry or the tree.
C1_SizeRejected ==
    (AfterRcf /\ last.inp.exists /\ last.inp.size \notin {8192, 16384}) =>
        /\ last.err = "DataFormat"
        /\ last.msg = "Invalid file size (must be 8 or 16 KB)"
        /\ \A i \in DOMAIN log : ~Allocates(log[i])
        /\ last.buffer = 0
        /\ m_instrumentStores = last.regBefore
        /\ tree = last.treeBefore

C1_Witness ==
    /\ AfterRcf
    /\ last.inp.exists
    /\ last.inp.size = 12288
    /\ last.err = "DataFormat"

\* C2: the layouts are tried in the order Mk1, DX10; DX10 is tried exactly when
\* Mk1 rejected the buffer with a DataFormat error; the store of a successful
\* read is the one store built, by the first layout that accepted.
C2_FirstLayoutWins ==
    AfterRcf =>
        /\ Len(Tries) <= 2
        /\ Len(Tries) >= 1 => Tries[1].x = "Mk1"
        /\ Len(Tries) = 2 => Tries[2].x = "Dx10"
        /\ (\E i \in DOMAIN Tries : Tries[i].x = "Dx10")
              <=> (\E i \in DOMAIN Tries : Tries[i].x = "Mk1" /\ Tries[i].y = "DataFormat")
        /\ last.err = "none" =>
              /\ Cardinality({i \in DOMAIN log : log[i].ev = "new_store"}) = 1
              /\ \E i \in DOMAIN Tries :
                    /\ Tries[i].y = "ok"
                    /\ \A j \in 1..(i - 1) : Tries[j].y # "ok"
                    /\ storeObj[last.is.m_store].kind = Tries[i].x

C2_Witness ==
    /\ AfterRcf
    /\ last.inp.content = "dx10"
    /\ last.err = "none"
    /\ Len(Tries) = 2
    /\ storeObj[last.is.m_store].kind = "Dx10"

\* C3: when every layout rejects the buffer, and so for an all-zero buffer of
\* valid length, readCartridgeFile fails with DataFormat "Unknown cartridge
\* format"; no store is built, registered or shown in the tree.
C3_UnknownFormat ==
    (/\ AfterRcf
     /\ \/ (Len(Tries) = 2 /\ \A i \in DOMAIN Tries : Tries[i].y = "DataFormat")
        \/ (last.inp.content = "zero" /\ \A i \in DOMAIN Tries : Tries[i].y # "other")) =>
        /\ last.err = "DataFormat"
        /\ last.msg = "Unknown cartridge format"
        /\ last.is.m_store = 0
        /\ \A i \in DOMAIN log : log[i].ev # "new_store"
        /\ m_instrumentStores = last.regBefore
        /\ tree = last.treeBefore

C3_Witness ==
    /\ AfterRcf
    /\ last.inp.content = "zero"
    /\ last.inp.size = 16384
    /\ last.msg = "Unknown cartridge format"

\* Why the last readCartridgeFile had to fail once its buffer was allocated.
RcfShortRead == last.inp.content = "unread"
RcfAllRejected == \A i \in DOMAIN Tries : Tries[i].y = "DataFormat"
RcfOtherException ==
    \/ \E i \in DOMAIN Tries : Tries[i].y = "other"
    \/ (last.inp.fault = "tree" /\ \E i \in DOMAIN Tries : Tries[i].y = "ok")

\* C4: on every failing path of readCartridgeFile after the buffer has been
\* allocated, the buffer is freed exactly once, a store built in the attempt is
\* destroyed exactly once, the registry is unchanged and the error that was
\* raised leaves the function.
C4_FailureReleases ==
    (/\ AfterRcf
     /\ last.buffer # 0
     /\ last.err # "none" \/ RcfShortRead \/ RcfAllRejected \/ RcfOtherException) =>
        /\ bufObj[last.buffer].freed = 1
        /\ \A s \in DOMAIN storeObj :
              storeObj[s].buffer = last.buffer => storeObj[s].deleted = 1
        /\ m_instrumentStores = last.regBefore
        /\ last.err = (IF RcfOtherException THEN "other" ELSE "DataFormat")
        /\ RcfShortRead => last.msg = "Could not read whole cartridge data"

C4_Witness ==
    /\ AfterRcf
    /\ last.err = "other"
    /\ last.inp.fault = "tree"
    /\ bufObj[last.buffer].freed = 1
    /\ \E s \in DOMAIN storeObj : storeObj[s].buffer = last.buffer /\ storeObj[s].deleted = 1

\* C5: once the main frame is destroyed, every store that was ever built has
\* been destroyed exactly once and its buffer freed exactly once.
C5_NoLeakNoDoubleFree ==
    pc = "destroyed" =>
        \A s \in DOMAIN storeObj :
            /\ storeObj[s].deleted = 1
            /\ bufObj[storeObj[s].buffer].freed = 1

\* C6: no buffer is ever freed while a store that views it is still alive.
C6_BufferOutlivesStore ==
    \A b \in DOMAIN bufObj : ~bufObj[b].freedUnderStore

C6_Witness ==
    /\ pc = "destroyed"
    /\ \E s \in DOMAIN storeObj :
          /\ storeObj[s].kind = "Dx10Device"
          /\ storeObj[s].deleted = 1
          /\ bufObj[storeObj[s].buffer].freed = 1
    /\ \E s \in DOMAIN storeObj :
          /\ storeObj[s].kind # "Dx10Device"
          /\ storeObj[s].deleted = 1
          /\ bufObj[storeObj[s].buffer].freed = 1

\* A registry entry that is a device.
IsDevice(is) == is.m_store # 0 /\ storeObj[is.m_store].kind = "Dx10Device"

PortOpen(handle) ==
    /\ handle # 0
    /\ midiObj[handle].open
    /\ midiObj[handle].deleted = 0

\* C10: every device in the registry has its input and its output port open;
\* a configured port that is not found ends in a Configuration error and the
\* device is not registered.
C10_RegisteredDeviceOpen ==
    /\ \A n \in DOMAIN m_instrumentStores :
          IsDevice(m_instrumentStores[n]) =>
              /\ PortOpen(m_instrumentStores[n].m_midiIn)
              /\ midiObj[m_instrumentStores[n].m_midiIn].dir = "in"
              /\ PortOpen(m_instrumentStores[n].m_midiOut)
              /\ midiObj[m_instrumentStores[n].m_midiOut].dir = "out"
    /\ (last.op = "createDevices"
           /\ (last.inp.inPort = "missing" \/ last.inp.outPort = "missing")) =>
          /\ last.err = "Configuration"
          /\ last.msg \in {"MIDI input port not found", "MIDI output port not found"}
          /\ m_instrumentStores = last.regBefore

C10_Witness ==
    /\ last.op = "createDevices"
    /\ last.inp.outPort = "missing"
    /\ \E n \in DOMAIN m_instrumentStores : IsDevice(m_instrumentStores[n])

\* C11: every device in the registry has a MIDI channel in 1..16 and a type in
\* {1, 2}, and every other entry has type 0; a configured channel or type
\* outside its range ends createDevices for that device in a Configuration
\* error and the device is not registered.
C11_ChannelAndTypeInRange ==
    /\ \A n \in DOMAIN m_instrumentStores :
          LET is == m_instrumentStores[n]
          IN IF IsDevice(is)
               THEN is.m_channel \in 1..16 /\ is.m_type \in {1, 2}
               ELSE is.m_type = 0
    /\ (last.op = "createDevices"
           /\ (last.inp.channel \in {0, 17} \/ last.inp.type \in {0, 3})) =>
          /\ last.err = "Configuration"
          /\ last.msg \in {"Invalid value for MIDI channel", "Invalid value for device type"}
          /\ m_instrumentStores = last.regBefore
          /\ tree = last.treeBefore

C11_Witness ==
    /\ last.op = "createDevices"
    /\ last.inp.channel = 17
    /\ last.err = "Configuration"
    /\ \E n \in DOMAIN m_instrumentStores :
          IsDevice(m_instrumentStores[n]) /\ m_instrumentStores[n].m_channel = 16

\* The events of the last handler of one kind.
LogOf(kinds) == {i \in DOMAIN log : log[i].ev \in kinds}

\* C12: addDevice with a name the registry already holds, for a device or a
\* cartridge, fails with a Configuration error; it opens no port, allocates
\* no buffer and builds no store, leaves the registry and the tree as they
\* were, and deletes each of the two handles it created exactly once.
C12_DuplicateDeviceName ==
    (/\ last.op = "addDevice"
     /\ last.inp.dialog = "ok"
     /\ last.name \in DOMAIN last.regBefore) =>
        /\ last.err = "Configuration"
        /\ last.msg = "Device or cartridge with this name already exists"
        /\ ~last.escaped
        /\ LogOf({"open_port", "new_buf", "new_store", "set_callback"}) = {}
        /\ m_instrumentStores = last.regBefore
        /\ tree = last.treeBefore
        /\ Cardinality(LogOf({"new_midi"})) = 2
        /\ \A i \in LogOf({"new_midi"}) :
              /\ midiObj[log[i].id].deleted = 1
              /\ ~midiObj[log[i].id].open

C12_Witness ==
    /\ last.op = "addDevice"
    /\ last.inp.dialog = "ok"
    /\ last.name \in DOMAIN last.regBefore
    /\ ~IsDevice(last.regBefore[last.name])
    /\ Cardinality(LogOf({"delete_midi"})) = 2

CdFailureMessages ==
    {"MIDI input port not found", "MIDI output port not found",
     "Invalid value for MIDI channel", "Invalid value for device type"}

\* C13: when createDevices fails for a configured device because a port is not
\* found or the channel or the type is invalid, the store, its buffer and
\* both MIDI handles created for that device are each released exactly once,
\* the device is added neither to the registry nor to the tree, and
\* createDevices goes on with the remaining devices.
C13_CreateDeviceFailureReleases ==
    (last.op = "createDevices" /\ last.msg \in CdFailureMessages) =>
        /\ last.err = "Configuration"
        /\ ~last.escaped
        /\ pc # "aborted"
        /\ last.is.m_store # 0 /\ storeObj[last.is.m_store].deleted = 1
        /\ last.buffer # 0 /\ bufObj[last.buffer].freed = 1
        /\ storeObj[last.is.m_store].buffer = last.buffer
        /\ last.is.m_midiIn # 0 /\ midiObj[last.is.m_midiIn].deleted = 1
        /\ last.is.m_midiOut # 0 /\ midiObj[last.is.m_midiOut].deleted = 1
        /\ m_instrumentStores = last.regBefore
        /\ tree = last.treeBefore

\* A device fails and the next configured device is still created.
C13_Witness ==
    /\ last.op = "createDevices"
    /\ last.err = "none"
    /\ \E s \in DOMAIN storeObj :
          /\ s < last.is.m_store
          /\ storeObj[s].kind = "Dx10Device"
          /\ storeObj[s].deleted = 1
    /\ \E m \in DOMAIN midiObj : midiObj[m].open /\ midiObj[m].deleted = 1

RdActive == rd.pc \in {"AwaitingBlock", "ApplyBlock"}

RdEnded == rd.pc \in {"Complete", "Cancelled", "Failed"}

\* onInstSelect has just returned from the read it started.
ReadReturned ==
    /\ pc = "idle"
    /\ last.op = "onInstSelect"
    /\ last.inp.item = rd.item
    /\ last.inp.icbNum = 0

\* C14: when the progress dialog answers false after k units of a device
\* read, the transaction is cancelled there without an exception: no further
\* unit is done, no frame is left half applied, and the store holds exactly
\* the blocks received up to then, which the tree lists once onInstSelect
\* has returned.
C14_CancelKeepsReceived ==
    rd.cancelAt # -1 =>
        /\ rd.pc = "Cancelled"
        /\ rd.answer = "stop"
        /\ rd.units = rd.cancelAt
        /\ rd.reported = rd.cancelAt
        /\ rd.frame = NoFrame
        /\ Cardinality(rd.applied) <= rd.cancelAt
        /\ (pc = "reading" \/ ReadReturned) => stBlocks[rd.store] = rd.applied
        /\ ReadReturned => treeKids[rd.item] = Icbs(rd.applied)
        /\ ~(last.op = "onInstSelect" /\ last.escaped)

C14_Witness ==
    /\ ReadReturned
    /\ rd.pc = "Cancelled"
    /\ rd.cancelAt = 2
    /\ Cardinality(rd.applied) = 1

\* C15: a received frame whose checksum does not match its payload is never
\* applied: the read ends there in a DataFormat error, and the store holds
\* only the blocks of frames that verified.
C15_ChecksumEnforced ==
    /\ (rd.frame # NoFrame /\ rd.frame.checksum # Checksum(rd.frame.payload)) =>
          /\ rd.pc = "Failed"
          /\ pc = "aborted"
          /\ last.err = "DataFormat"
          /\ rd.frame.block \notin rd.applied
          /\ rd.frame.block \notin stBlocks[rd.store]
    /\ RdActive => stBlocks[rd.store] = rd.applied

C15_Witness ==
    /\ rd.pc = "Failed"
    /\ rd.frame.checksum # Checksum(rd.frame.payload)
    /\ rd.applied # {}
    /\ stBlocks[rd.store] = rd.applied

\* The transitions the read path may take within one transaction.
RdAllowed ==
    {<<"AwaitingBlock", "ApplyBlock">>, <<"ApplyBlock", "AwaitingBlock">>,
     <<"ApplyBlock", "Complete">>, <<"AwaitingBlock", "Complete">>,
     <<"AwaitingBlock", "Cancelled">>, <<"AwaitingBlock", "Failed">>}

\* C16: a read goes Idle -> AwaitingBlock -> ApplyBlock -> AwaitingBlock or
\* Complete; Cancelled is entered only from AwaitingBlock and only on a false
\* answer of the progress callback; a block is applied only from ApplyBlock
\* and only from a frame that verified; a transaction that is Complete or
\* Cancelled takes no further step and applies no further block.
C16_ReadStateMachine ==
    [][LET same == rd'.txn = rd.txn
       IN /\ ~same => /\ rd'.txn = rd.txn + 1
                      /\ rd.pc \in {"Idle", "Complete", "Cancelled"}
                      /\ rd'.pc = "AwaitingBlock"
                      /\ rd'.applied = {}
          /\ (same /\ rd'.pc # rd.pc) => <<rd.pc, rd'.pc>> \in RdAllowed
          /\ (same /\ rd'.pc = "Cancelled" /\ rd.pc # "Cancelled") =>
                 rd'.answer = "stop" /\ rd'.cancelAt = rd.units
          /\ (same /\ rd'.applied # rd.applied) =>
                 /\ rd.pc = "ApplyBlock"
                 /\ rd.frame.checksum = Checksum(rd.frame.payload)
                 /\ rd'.applied = rd.applied \cup {rd.frame.block}
          /\ (same /\ rd.pc \in {"Complete", "Cancelled"}) => rd' = rd
      ]_vars

C16_Witness ==
    /\ rd.txn = 2
    /\ rd.pc = "Cancelled"
    /\ rd.applied # {}
    /\ pc = "idle"

C18_OneTransferAtATime ==
    [][/\ RdActive =>
             /\ pc = "reading"
             /\ rd'.txn = rd.txn
             /\ rd'.store = rd.store
             /\ m_dragStore' = m_dragStore
             /\ dragging' = dragging
             /\ treeKids' = treeKids
             /\ \A s \in DOMAIN stBlocks : s # rd.store => stBlocks'[s] = stBlocks[s]
             /\ last' # last => rd'.pc = "Failed"
       /\ (pc = "reading" /\ pc' = "idle") =>
             /\ rd.pc \in {"Complete", "Cancelled"}
             /\ treeKids' = [treeKids EXCEPT ![rd.item] = Icbs(stBlocks[rd.store])]
      ]_vars

C18_Witness ==
    /\ pc = "reading"
    /\ rd.pc = "ApplyBlock"
    /\ rd.txn = 2
    /\ dragging

\* C19: a drop that calls copyContents between stores of different
\* generations ends in a Configuration error; the contents of every store
\* and the instrument items below every store item are as they were before
\* the drop.
C19_IncompatibleCopy ==
    (/\ last.op = "onInstEndDrag"
     /\ last.inp.item # 0
     /\ last.inp.icbNum = 0
     /\ last.is.m_type # 0
     /\ last.inp.dragStore # 0
     /\ last.inp.dragStore # last.is.m_store
     /\ Generation(storeObj[last.is.m_store].kind)
           # Generation(storeObj[last.inp.dragStore].kind)) =>
        /\ last.err = "Configuration"
        /\ stBlocks = last.inp.blocks
        /\ treeKids = last.inp.kids

C19_Witness ==
    /\ last.op = "onInstEndDrag"
    /\ last.err = "Configuration"
    /\ treeKids[last.inp.item] # {}
    /\ stBlocks[last.is.m_store] # {}

Rank(type) ==
    CASE type = "ICB" -> 1
      [] type = "VCF" -> 2
      [] type = "AMPL" -> 3
      [] type = "FREQ" -> 4
      [] type = "WAVE" -> 5

SentOf(type) == {i \in DOMAIN wdSent : wdSent[i].type = type}

\* C7: in every run of writeDevice the messages go out by type: all ICBs, then
\* all filters, then amplitude, then frequency, then waveform.
C7_TypeOrder ==
    \A i \in DOMAIN wdSent : \A j \in DOMAIN wdSent :
        i < j => Rank(wdSent[i].type) <= Rank(wdSent[j].type)

C7_Witness ==
    /\ wdPc = "done"
    /\ \A t \in BlockTypes : SentOf(t) # {}

\* C8: after the ICB loop the offset is the lowest non-zero ICB slot of the
\* store, minus 1.
C8_OffsetFromLowestSlot ==
    (wdPc \in {"VCF", "AMPL", "FREQ", "WAVE", "done"}
       /\ \E s \in wdStore.ICB : s # 0) =>
        wdOffset = Min({s \in wdStore.ICB : s # 0}) - 1

\* The addresses a block loop visits: offset+0..offset+9, and for the three
\* envelope and wave loops offset+11..offset+20 as well, in uint8_t.
Probed(type) ==
    {U8(wdOffset + k) : k \in IF type = "VCF" THEN 0..9 ELSE (0..9) \cup (11..20)}

\* C9: when writeDevice returns it has sent one ICB message per ICB of the
\* store and, per block type, one message for every visited address that
\* holds a block and none for any other; no address twice.
C9_OneMessagePerBlock ==
    wdPc = "done" =>
        /\ {wdSent[i].addr : i \in SentOf("ICB")} = wdStore.ICB
        /\ Cardinality(SentOf("ICB")) = Cardinality(wdStore.ICB)
        /\ \A t \in BlockTypes \ {"ICB"} :
              /\ {wdSent[i].addr : i \in SentOf(t)} = Probed(t) \cap wdStore[t]
              /\ Cardinality(SentOf(t)) = Cardinality(Probed(t) \cap wdStore[t])
              /\ Cardinality(SentOf(t)) <= LoopLimit(t)
              /\ U8(wdOffset + 10) \in wdStore[t] /\ t # "VCF" =>
                    \A i \in SentOf(t) : wdSent[i].addr # U8(wdOffset + 10)

C9_Witness ==
    /\ wdPc = "done"
    /\ wdOffset = 255
    /\ 10 \in wdStore.AMPL /\ \E i \in SentOf("AMPL") : wdSent[i].addr = 10
    /\ 9 \in wdStore.VCF /\ SentOf("VCF") = {}
    /\ SentOf("WAVE") # {}

\* C21: decoding leaves the input buffer as the file was read into it: every
\* constructor readCartridgeFile calls is given exactly the bytes read from
\* the file, the DX10 constructor after a rejected Mk1 attempt included.
C21_BufferNotMutated ==
    AfterRcf =>
        /\ Len(last.inp.seen) = Len(Tries)
        /\ \A i \in DOMAIN last.inp.seen : last.inp.seen[i] = last.inp.content
        /\ (Len(Tries) = 2 /\ Tries[1].y = "DataFormat") =>
               /\ Tries[2].x = "Dx10"
               /\ Tries[2].y = Construct("Dx10", last.inp.content, last.inp.fault)

C21_Witness ==
    /\ AfterRcf
    /\ Len(Tries) = 2
    /\ Tries[1].x = "Mk1" /\ Tries[1].y = "DataFormat"
    /\ Tries[2].x = "Dx10" /\ Tries[2].y = "ok"
    /\ last.inp.seen = <<"dx10", "dx10">>

\* A store a cartridge decode produced.
DecodedStore(s) == storeObj[s].kind \in {"Mk1", "Dx10"}

\* A store holding what a completed device read produced: the read on it has
\* ended with every expected block received.
ReadCompleted(s) ==
    /\ rd.store = s
    /\ rd.pc = "Complete"
    /\ rd.applied = Blocks
    /\ stBlocks[s] = rd.applied

AfterBeginDrag == last.op = "onInstBeginDrag"

AfterEndDrag == last.op = "onInstEndDrag"

\* The item the last handler was called for is the root item of a store.
OnStoreRoot == last.inp.item # 0 /\ last.inp.icbNum = 0 /\ last.is.m_store # 0

\* C23: onInstEndDrag calls copyContents only with a cartridge store (type 0),
\* remembered from a begin-drag on that store's root item, as source and, as
\* destination, the store of the root item dropped on, which is a device
\* (type not 0) and another store than the source.  A begin-drag is allowed
\* only on the root item of a cartridge.  A vetoed begin-drag or drop leaves
\* the blocks of every store, the instrument items and the heap as they were.
C23_CopyOnlyCartridgeToDevice ==
    /\ AfterEndDrag =>
          LET src == last.inp.dragStore
              called == last.err # "veto"
          IN /\ called =>
                   /\ src # 0 /\ DecodedStore(src)
                   /\ \E i \in DOMAIN tree :
                         tree[i].is.m_store = src /\ tree[i].is.m_type = 0
                   /\ OnStoreRoot
                   /\ last.is.m_type # 0 /\ IsDevice(last.is)
                   /\ last.is.m_store # src
             /\ ~called => stBlocks = last.inp.blocks /\ treeKids = last.inp.kids
             /\ \A s \in DOMAIN stBlocks :
                   s # last.is.m_store => stBlocks[s] = last.inp.blocks[s]
    /\ AfterBeginDrag =>
          /\ last.err = "none" =>
                /\ OnStoreRoot
                /\ last.is.m_type = 0 /\ DecodedStore(last.is.m_store)
                /\ dragging /\ m_dragStore = last.is.m_store
          /\ last.err # "none" => last.err = "veto" /\ ~dragging
          /\ stBlocks = last.inp.blocks /\ treeKids = last.inp.kids
    /\ (AfterBeginDrag \/ AfterEndDrag) => log = <<>>

C23_Witness ==
    /\ AfterEndDrag
    /\ last.err = "none"
    /\ DecodedStore(last.inp.dragStore)
    /\ IsDevice(last.is)
    /\ stBlocks[last.is.m_store] = stBlocks[last.inp.dragStore]
    /\ stBlocks[last.is.m_store] # last.inp.blocks[last.is.m_store]
    /\ treeKids[last.inp.item] # {}

AfterRename == last.op = "onInstRename"

\* The stores a registry holds.
RegStores(reg) == {reg[n] : n \in DOMAIN reg}

\* C24: a rename of an item that is not a store root (the folders, an
\* instrument item) is vetoed; a rename to a name the registry holds, the
\* store's own included, is vetoed; a vetoed rename leaves the registry and
\* the tree as they were; an accepted rename moves the entry of the store
\* from its old name to the new one and changes no other entry, so that the
\* number of entries and the stores registered are those from before.
C24_RenameKeepsRegistry ==
    AfterRename =>
        LET before == last.regBefore
            new == last.name
        IN /\ (last.inp.item = 0 \/ last.inp.icbNum # 0 \/ last.is.m_store = 0) =>
                 last.err = "veto"
           /\ new \in DOMAIN before => last.err = "veto"
           /\ last.err = "veto" =>
                 m_instrumentStores = before /\ tree = last.treeBefore
           /\ last.err # "veto" =>
                 /\ last.err = "none"
                 /\ \E old \in DOMAIN before :
                       /\ before[old] = last.is
                       /\ old # new
                       /\ DOMAIN m_instrumentStores = (DOMAIN before \ {old}) \cup {new}
                       /\ m_instrumentStores[new] = before[old]
                       /\ \A n \in DOMAIN before \ {old} :
                             m_instrumentStores[n] = before[n]
           /\ Cardinality(DOMAIN m_instrumentStores) = Cardinality(DOMAIN before)
           /\ RegStores(m_instrumentStores) = RegStores(before)

C24_Witness ==
    /\ AfterRename
    /\ last.err = "none"
    /\ last.name \in DOMAIN m_instrumentStores
    /\ last.name \notin DOMAIN last.regBefore
    /\ m_instrumentStores[last.name] = last.is
    /\ last.regBefore # <<>>

\* C25: no store is deleted, and no buffer of a store freed, while an input
\* handle that is open and alive has the store as the target of its
\* callback: the input is closed or deleted first, in ~MainFrame and in the
\* catch block of createDevices.
C25_CallbackNeverOnDestroyedStore ==
    /\ \A s \in DOMAIN storeObj : ~storeObj[s].deletedUnderInput
    /\ \A b \in DOMAIN bufObj : ~bufObj[b].freedUnderInput

\* C26: m_dragStore is set only while an allowed drag has not been dropped
\* yet: it is null after every onInstEndDrag, accepted or vetoed, and after
\* every vetoed onInstBeginDrag.
C26_DragStoreOnlyWhileDragging ==
    /\ m_dragStore # 0 => dragging
    /\ AfterEndDrag => m_dragStore = 0
    /\ (AfterBeginDrag /\ last.err = "veto") => m_dragStore = 0

====
